---- MODULE Spec2Model ----
\* Parakeet FastAPI bridge (src/parakeet_fastapi/server.py): the lazy model
\* loader, the /healthz and /transcribe handlers, the temp-file staging of the
\* upload and the coercion of a prediction into text.
EXTENDS Integers, Sequences, FiniteSets, TLC

\* ------------------------------------------------------------------ bounds
MaxReqs == 2        \* POST /transcribe requests in flight at once
MaxLeaks == 1       \* temp files left behind in one run
MaxCalls == 2       \* calls of _load_model in one run
MaxItems == 2       \* elements of a list prediction

\* --------------------------------------------------------------- variables
VARIABLES
  _model,        \* server.py:10  None or the handle of the restored model
  _device,       \* server.py:11  "cpu" / "cuda"
  MODEL_PATH,    \* os.environ.get("MODEL_PATH") of the process
  cudaAvailable, \* torch.cuda.is_available() of the host
  startup,       \* position of the startup event
  reqs,          \* the POST /transcribe requests in flight, by slot, and
                 \* the request that completed last
  files,         \* temp files that exist on disk
  healthResp,    \* the response of GET /healthz, while it is the last response
  loadLog,       \* one record per call of _load_model, in call order
  prediction,    \* argument of a direct _coerce_prediction call
  coerced        \* its result

vars == <<_model, _device, MODEL_PATH, cudaAvailable, startup, reqs, files,
          healthResp, loadLog, prediction, coerced>>

serverVars == <<_model, _device, MODEL_PATH, cudaAvailable, startup, reqs,
                files, healthResp, loadLog>>

None == 0           \* Python's None for _model; handles are 1, 2, ...
Unset == "<unset>"  \* os.environ.get returns None

\* ------------------------------------------------------------ text helpers
Whitespace == {" ", "\t", "\n"}

RECURSIVE lstrip(_)
lstrip(s) ==
  IF s = <<>> THEN <<>>
  ELSE IF Head(s) \in Whitespace THEN lstrip(Tail(s)) ELSE s

RECURSIVE rstrip(_)
rstrip(s) ==
  IF s = <<>> THEN <<>>
  ELSE IF s[Len(s)] \in Whitespace THEN rstrip(SubSeq(s, 1, Len(s) - 1)) ELSE s

strip(s) == rstrip(lstrip(s))

startswith(s, prefix) ==
  /\ Len(s) >= Len(prefix)
  /\ SubSeq(s, 1, Len(prefix)) = prefix

RECURSIVE Concat(_)
Concat(ss) == IF ss = <<>> THEN <<>> ELSE Head(ss) \o Concat(Tail(ss))

RECURSIVE Join(_, _)
Join(sep, ss) ==
  IF ss = <<>> THEN <<>>
  ELSE IF Len(ss) = 1 THEN ss[1]
  ELSE ss[1] \o sep \o Join(sep, Tail(ss))
\* ------------------------------------------------------- prediction values
\* A prediction is a record [tag, s, items]:
\*   "str"    a Python str with characters s
\*   "list"   a list/tuple with elements items
\*   "dict"   a dict; items are its pairs in insertion order
\*   "pair"   one dict entry: key s, value items[1]
\*   "obj"    any other object: str(obj) = s; items = <<t>> when it has an
\*            attribute `text` of value t, <<>> when it has none
\*   "raiser" an object without `text` whose __str__ raises
Str(s) == [tag |-> "str", s |-> s, items |-> <<>>]
List(items) == [tag |-> "list", s |-> <<>>, items |-> items]
Pair(k, v) == [tag |-> "pair", s |-> k, items |-> <<v>>]
Dict(pairs) == [tag |-> "dict", s |-> <<>>, items |-> pairs]
Obj(s) == [tag |-> "obj", s |-> s, items |-> <<>>]
ObjText(s, t) == [tag |-> "obj", s |-> s, items |-> <<t>>]
Raiser == [tag |-> "raiser", s |-> <<>>, items |-> <<>>]

kText == <<"t", "e", "x", "t">>
kTranscript == <<"t", "r", "a", "n", "s", "c", "r", "i", "p", "t">>
kTranscription == <<"t", "r", "a", "n", "s", "c", "r", "i", "p", "t", "i", "o", "n">>
kResult == <<"r", "e", "s", "u", "l", "t">>
kMessage == <<"m", "e", "s", "s", "a", "g", "e">>
kDetail == <<"d", "e", "t", "a", "i", "l">>
kFoo == <<"f", "o", "o">>

CandidateKeys == <<kText, kTranscript, kTranscription, kResult, kMessage, kDetail>>

\* repr() of one character of a str (the alphabet has no quote or backslash)
ReprChar(c) ==
  IF c = "\t" THEN <<"\\", "t">>
  ELSE IF c = "\n" THEN <<"\\", "n">>
  ELSE <<c>>

ReprStr(s) == <<"'">> \o Concat([i \in 1..Len(s) |-> ReprChar(s[i])]) \o <<"'">>

\* repr(v) raises when the __str__/__repr__ of a nested object raises
RECURSIVE ReprRaises(_)
ReprRaises(v) ==
  CASE v.tag = "raiser" -> TRUE
    [] v.tag \in {"list", "dict", "pair"} ->
         \E i \in 1..Len(v.items) : ReprRaises(v.items[i])
    [] OTHER -> FALSE

RECURSIVE Repr(_)
Repr(v) ==
  CASE v.tag = "str" -> ReprStr(v.s)
    [] v.tag = "list" ->
         <<"[">> \o Join(<<",", " ">>, [i \in 1..Len(v.items) |-> Repr(v.items[i])]) \o <<"]">>
    [] v.tag = "dict" ->
         <<"{">> \o Join(<<",", " ">>, [i \in 1..Len(v.items) |-> Repr(v.items[i])]) \o <<"}">>
    [] v.tag = "pair" -> ReprStr(v.s) \o <<":", " ">> \o Repr(v.items[1])
    [] OTHER -> v.s

\* prediction.get(key): <<value>>, or <<>> for None
DictGet(d, key) ==
  IF \E i \in 1..Len(d.items) : d.items[i].s = key
  THEN <<d.items[CHOOSE i \in 1..Len(d.items) : d.items[i].s = key].items[1]>>
  ELSE <<>>

\* variant: the value.strip() half of the test is missing
KeyHitAnyStr(d, key) ==
  LET got == DictGet(d, key) IN
  /\ got # <<>>
  /\ got[1].tag = "str"

\* server.py:77  isinstance(value, str) and value.strip()
KeyHit(d, key) ==
  LET got == DictGet(d, key) IN
  /\ got # <<>>
  /\ got[1].tag = "str"
  /\ strip(got[1].s) # <<>>

Returned(text) == [exc |-> FALSE, text |-> text]
Raised == [exc |-> TRUE, text |-> <<>>]

\* variant: the dict branch ends with `return ""` as the list branch does
FallbackEmptyForDict(p) ==
  IF p.tag = "dict" THEN Returned(<<>>)
  ELSE IF p.tag = "obj" /\ p.items # <<>> /\ p.items[1].tag = "str"
  THEN Returned(strip(p.items[1].s))
  ELSE IF ReprRaises(p) THEN Raised
  ELSE Returned(strip(Repr(p)))

\* server.py:80-84  the fall-through shared by dicts and other objects
Fallback(p) ==
  IF p.tag = "obj" /\ p.items # <<>> /\ p.items[1].tag = "str"
  THEN Returned(strip(p.items[1].s))
  ELSE IF ReprRaises(p) THEN Raised
  ELSE Returned(strip(Repr(p)))

RECURSIVE _coerce_prediction(_)
RECURSIVE CoerceItems(_)

\* server.py:68-72  the loop over the elements of a list
CoerceItems(items) ==
  IF items = <<>> THEN Returned(<<>>)
  ELSE LET r == _coerce_prediction(Head(items)) IN
       IF r.exc THEN Raised
       ELSE IF r.text # <<>> THEN r
       ELSE CoerceItems(Tail(items))

_coerce_prediction(p) ==
  CASE p.tag = "str" -> Returned(strip(p.s))
    [] p.tag = "list" -> CoerceItems(p.items)
    [] p.tag = "dict" ->
         IF \E i \in 1..Len(CandidateKeys) : KeyHit(p, CandidateKeys[i])
         THEN LET i == CHOOSE j \in 1..Len(CandidateKeys) :
                         /\ KeyHit(p, CandidateKeys[j])
                         /\ \A k \in 1..(j - 1) : ~KeyHit(p, CandidateKeys[k])
              IN Returned(strip(DictGet(p, CandidateKeys[i])[1].s))
         ELSE Fallback(p)
    [] OTHER -> Fallback(p)

\* ------------------------------------------------ bounded prediction inputs
Strings == { <<>>, <<" ">>, <<"x">>, <<" ", "h", "i", " ">>, <<"h", "i", "\t">> }
StrVals == { Str(s) : s \in Strings }
Seven == Obj(<<"7">>)
ObjVals == { Seven, Raiser,
             ObjText(<<"<", "H", ">">>, Str(<<" ", "h", "i", " ">>)),
             ObjText(<<" ", "<", "O", ">">>, Seven) }
Keys == { kFoo, kText, kResult, kDetail }
DictValues == StrVals \cup {Seven}
DictVals ==
  { Dict(<<Pair(k, v)>>) : k \in Keys, v \in DictValues }
  \cup { Dict(<<Pair(kResult, v), Pair(kText, w)>>) : v \in DictValues, w \in DictValues }
  \cup { Dict(<<>>) }
ListElems ==
  { Str(<<>>), Str(<<" ">>), Str(<<" ", "h", "i", " ">>), Seven, Raiser,
    List(<<>>), List(<<Str(<<"x">>)>>), Dict(<<>>),
    Dict(<<Pair(kFoo, Str(<<"x">>))>>), Dict(<<Pair(kText, Str(<<" ", "h", "i", " ">>))>>),
    Dict(<<Pair(kResult, Str(<<>>))>>), Dict(<<Pair(kText, Seven)>>) }
ListVals == UNION { { List(t) : t \in [1..n -> ListElems] } : n \in 0..MaxItems }
Predictions == StrVals \cup ObjVals \cup DictVals \cup ListVals
\* ------------------------------------------------------------ model loader
ExistingPaths == {"/model.nemo"}                 \* os.path.exists
ModelPaths == {Unset, "/missing.nemo", "/model.nemo"}
LoadOutcomes == {"ok", "restore_raises", "eval_raises", "to_raises"}

ErrNotSet == "MODEL_PATH environment variable is not set."
ErrNotExist == "MODEL_PATH does not exist: /missing.nemo"
ErrRestore == "ASRModel.restore_from raised"
ErrEval == "ASRModel.eval raised"
ErrTo == "ASRModel.to raised"
LoadErrors == {ErrNotSet, ErrNotExist, ErrRestore, ErrEval, ErrTo}

\* the handle restore_from returns: a model object never seen before
NewHandle == 1 + Cardinality({i \in 1..Len(loadLog) : loadLog[i].restored})

\* torch's Module.to moves the parameters in place and returns the module
To(h, dev) == h

\* The result of one call of _load_model: raised = "" when the call returns
\* normally; env, restore, restored tell whether MODEL_PATH was read,
\* restore_from invoked, and a model returned by it.
LoadOut(m, d, e, env, restore, restored) ==
  [model |-> m, device |-> d, raised |-> e,
   env |-> env, restore |-> restore, restored |-> restored]

\* server.py:26-30  o is what the NeMo/torch calls do in this call
Restore(o) ==
  LET dev == IF cudaAvailable THEN "cuda" ELSE "cpu"
      h == NewHandle
  IN IF o = "restore_raises" THEN LoadOut(_model, dev, ErrRestore, TRUE, TRUE, FALSE)
     ELSE IF o = "eval_raises" THEN LoadOut(h, dev, ErrEval, TRUE, TRUE, TRUE)
     ELSE IF dev = "cuda" /\ o = "to_raises" THEN LoadOut(h, dev, ErrTo, TRUE, TRUE, TRUE)
     ELSE IF dev = "cuda" THEN LoadOut(To(h, dev), dev, "", TRUE, TRUE, TRUE)
     ELSE LoadOut(h, dev, "", TRUE, TRUE, TRUE)

\* server.py:20-30  the load proper, behind the `is not None` guard
LoadFromPath(o) ==
  IF MODEL_PATH = Unset \/ MODEL_PATH = ""
  THEN LoadOut(_model, _device, ErrNotSet, TRUE, FALSE, FALSE)
  ELSE IF MODEL_PATH \notin ExistingPaths
  THEN LoadOut(_model, _device, ErrNotExist, TRUE, FALSE, FALSE)
  ELSE Restore(o)

\* variant: the `if _model is not None: return` guard is missing
_load_model_unguarded(o) == LoadFromPath(o)

\* variant: the guard comes after the read of MODEL_PATH
_load_model_lateguard(o) ==
  IF _model # None THEN LoadOut(_model, _device, "", TRUE, FALSE, FALSE)
  ELSE LoadFromPath(o)

\* variant: the os.path.exists check is missing
_load_model_noexists(o) ==
  IF _model # None THEN LoadOut(_model, _device, "", FALSE, FALSE, FALSE)
  ELSE IF MODEL_PATH = Unset \/ MODEL_PATH = ""
  THEN LoadOut(_model, _device, ErrNotSet, TRUE, FALSE, FALSE)
  ELSE Restore(o)

\* variant: a failure of the load is swallowed instead of raised
_load_model_swallow(o) ==
  IF _model # None THEN LoadOut(_model, _device, "", FALSE, FALSE, FALSE)
  ELSE [LoadFromPath(o) EXCEPT !.raised = ""]

\* server.py:14-30  one call of _load_model
_load_model(o) ==
  IF _model # None THEN LoadOut(_model, _device, "", FALSE, FALSE, FALSE)
  ELSE LoadFromPath(o)

\* the entry of loadLog for a call with result res
LogEntry(res) ==
  [pre |-> _model, post |-> res.model, devPre |-> _device, devPost |-> res.device,
   raised |-> res.raised, env |-> res.env, restore |-> res.restore,
   restored |-> res.restored]

\* outcomes that differ from "ok" only where the call can reach them
Reachable(o) ==
  \/ o = "ok"
  \/ /\ _model = None
     /\ MODEL_PATH \in ExistingPaths
     /\ (o = "to_raises" => cudaAvailable)

\* a caller invokes _load_model()
LoadModelCall(o) ==
  /\ Len(loadLog) < MaxCalls
  /\ Reachable(o)
  /\ LET res == _load_model(o) IN
       /\ _model' = res.model
       /\ _device' = res.device
       /\ loadLog' = Append(loadLog, LogEntry(res))
  /\ UNCHANGED <<MODEL_PATH, cudaAvailable, startup, reqs, files,
                 healthResp, prediction, coerced>>

\* server.py:94-96  the startup event
startup_event(o) ==
  /\ startup = "pending"
  /\ Len(loadLog) < MaxCalls
  /\ Reachable(o)
  /\ LET res == _load_model(o) IN
       /\ _model' = res.model
       /\ _device' = res.device
       /\ loadLog' = Append(loadLog, LogEntry(res))
       /\ startup' = IF res.raised = "" THEN "done" ELSE "failed"
  /\ UNCHANGED <<MODEL_PATH, cudaAvailable, reqs, files,
                 healthResp, prediction, coerced>>

\* the host serves requests without delivering the startup event
SkipStartup ==
  /\ startup = "pending"
  /\ startup' = "skipped"
  /\ UNCHANGED <<_model, _device, MODEL_PATH, cudaAvailable, reqs, files,
                 healthResp, loadLog, prediction, coerced>>

\* a load has completed successfully: some call of _load_model returned
LoadSucceeded == \E i \in 1..Len(loadLog) : loadLog[i].raised = ""

\* server.py:100  the status /healthz reports
Status == IF _model # None THEN "ready" ELSE "loading"

\* ------------------------------------------------------- POST /transcribe
Audio == <<"a", "u", "d", "i", "o">>
AudioWav == Audio \o <<"/", "w", "a", "v">>
TextPlain == <<"t", "e", "x", "t", "/", "p", "l", "a", "i", "n">>
\* upload.content_type: <<>> is None, <<s>> is the str s
ContentTypes == { <<>>, <<AudioWav>>, <<TextPlain>> }
Payloads == 0..1                                  \* len(payload)

ErrContentType == "Invalid content type. Expected audio/*."
ErrEmpty == "Uploaded file is empty."
ErrNoPredictions == "ASR model returned no predictions."

\* variant: the `not` in front of startswith is missing
InvalidContentType_nonot(ct) ==
  /\ ct # <<>>
  /\ ct[1] # <<>>
  /\ startswith(ct[1], Audio)

\* server.py:34  upload.content_type and not upload.content_type.startswith("audio")
InvalidContentType(ct) ==
  /\ ct # <<>>
  /\ ct[1] # <<>>
  /\ ~startswith(ct[1], Audio)

\* what _model.transcribe([temp_path]) does: raises, or returns a sequence
InferPredictions == { ObjText(<<"<", "H", ">">>, Str(<<" ", "h", "i", " ">>)), Raiser }
InferOutcomes ==
  { [raised |-> TRUE, predictions |-> <<>>], [raised |-> FALSE, predictions |-> <<>>] }
  \cup { [raised |-> FALSE, predictions |-> <<p>>] : p \in InferPredictions }

NewReq ==
  [pc |-> "new", ctype |-> <<>>, payload |-> 0, status |-> 0, detail |-> "",
   exit |-> "", loadRaised |-> FALSE, tmpCreated |-> 0, tmpPath |-> 0,
   inferCalls |-> 0, inferModel |-> None, gone |-> FALSE,
   text |-> <<>>]

\* the request ends with an HTTP status
Respond(q, exit, status, detail) ==
  [q EXCEPT !.pc = "done", !.exit = exit, !.status = status, !.detail = detail]

\* the request of slot r completes as q; a slot keeps its completed request
\* only until another response is sent
Complete(r, q) ==
  [x \in DOMAIN reqs |->
     IF x = r THEN q
     ELSE IF reqs[x].pc = "done" THEN NewReq
     ELSE reqs[x]]

\* server.py:98-101  GET /healthz; its response is now the last one
health_check ==
  /\ startup # "pending"
  /\ healthResp' = <<[status |-> Status, device |-> _device, loaded |-> LoadSucceeded]>>
  /\ reqs' = [x \in DOMAIN reqs |-> IF reqs[x].pc = "done" THEN NewReq ELSE reqs[x]]
  /\ UNCHANGED <<_model, _device, MODEL_PATH, cudaAvailable, startup,
                 files, loadLog, prediction, coerced>>

\* os.remove(path)
os_remove(fs, path) ==
  [files |-> fs \ {path},
   raised |-> IF path \in fs THEN "" ELSE "FileNotFoundError"]

\* variant: the FileNotFoundError of os.remove is not caught
CleanupNoCatch(fs, path) ==
  LET rm == os_remove(fs, path) IN [files |-> rm.files, raised |-> rm.raised]

\* server.py:51-54  try: os.remove(temp_path) / except FileNotFoundError: pass
Cleanup(fs, path) ==
  LET rm == os_remove(fs, path) IN
  [files |-> rm.files,
   raised |-> IF rm.raised = "FileNotFoundError" THEN "" ELSE rm.raised]

\* server.py:104-107 and 33-37: the route up to `await upload.read()`
transcribe(r, ct, o) ==
  /\ startup # "pending"
  /\ reqs[r].pc # "reading"
  /\ \A x \in 1..(r - 1) : reqs[x].pc # "new"
  /\ Reachable(o)
  /\ _model # None => o = "ok"
  /\ _model = None => Len(loadLog) < MaxCalls
  /\ LET q == [NewReq EXCEPT !.ctype = ct]
         res == _load_model(o)
     IN
       IF _model = None
       THEN /\ _model' = res.model
            /\ _device' = res.device
            /\ loadLog' = Append(loadLog, LogEntry(res))
            /\ reqs' =
                 IF res.raised # ""
                 THEN Complete(r, [Respond(q, "load_error", 500, res.raised)
                                     EXCEPT !.loadRaised = TRUE])
                 ELSE IF InvalidContentType(ct)
                 THEN Complete(r, Respond(q, "bad_ctype", 400, ErrContentType))
                 ELSE [reqs EXCEPT ![r] = [q EXCEPT !.pc = "reading"]]
       ELSE /\ UNCHANGED <<_model, _device, loadLog>>
            /\ reqs' =
                 IF InvalidContentType(ct)
                 THEN Complete(r, Respond(q, "bad_ctype", 400, ErrContentType))
                 ELSE [reqs EXCEPT ![r] = [q EXCEPT !.pc = "reading"]]
  /\ healthResp' = IF reqs'[r].pc = "done" THEN <<>> ELSE healthResp
  /\ UNCHANGED <<MODEL_PATH, cudaAvailable, startup, files, prediction, coerced>>

\* server.py:47-59  from the try block to the return, for the staged file
\* path; inf is what inference does, g whether the file vanished meanwhile
Infer(q, fs, path, inf, g) ==
  LET asserted == _model # None
      q1 == IF asserted
            THEN [q EXCEPT !.inferCalls = @ + 1, !.inferModel = _model, !.gone = g]
            ELSE q
      fs1 == IF asserted /\ g THEN fs \ {path} ELSE fs
      cl == Cleanup(fs1, path)
      co == _coerce_prediction(inf.predictions[1])
      done ==
        IF cl.raised # "" THEN Respond(q1, "cleanup_exc", 500, cl.raised)
        ELSE IF ~asserted THEN Respond(q1, "assert", 500, "AssertionError")
        ELSE IF inf.raised THEN Respond(q1, "infer_exc", 500, "inference raised")
        ELSE IF inf.predictions = <<>> THEN Respond(q1, "no_predictions", 500, ErrNoPredictions)
        ELSE IF co.exc THEN Respond(q1, "coerce_exc", 500, "coercion raised")
        ELSE [Respond(q1, "ok", 200, "") EXCEPT !.text = co.text]
  IN [req |-> done, files |-> cl.files]

\* tempfile.NamedTemporaryFile picks a name that no existing file has
mkstemp == CHOOSE n \in 1..(Cardinality(files) + 1) : n \notin files

\* server.py:37-59  _transcribe from the read on: n is the length of the
\* payload read, w whether tmp.write works
transcribe_resume(r, n, w, inf, g) ==
  /\ reqs[r].pc = "reading"
  /\ LET q == [reqs[r] EXCEPT !.payload = n]
         path == mkstemp
         staged == [q EXCEPT !.tmpCreated = @ + 1, !.tmpPath = path]
         fin == Infer(staged, files \cup {path}, path, inf, g)
     IN
       IF q.payload = 0
       THEN /\ w /\ ~g /\ inf = [raised |-> TRUE, predictions |-> <<>>]
            /\ reqs' = Complete(r, Respond(q, "empty_payload", 400, ErrEmpty))
            /\ UNCHANGED files
       ELSE IF ~w
       THEN /\ Cardinality(files) < MaxLeaks
            /\ ~g /\ inf = [raised |-> TRUE, predictions |-> <<>>]
            /\ reqs' = Complete(r, Respond(staged, "write_error", 500, "OSError"))
            /\ files' = files \cup {path}
       ELSE /\ reqs' = Complete(r, fin.req)
            /\ files' = fin.files
  /\ healthResp' = <<>>
  /\ UNCHANGED <<_model, _device, MODEL_PATH, cudaAvailable, startup,
                 loadLog, prediction, coerced>>

\* ------------------------------------------------- direct coercion calls
NoPrediction == Str(<<>>)

coerce_call(p) ==
  /\ coerced = <<>>
  /\ prediction' = p
  /\ coerced' = <<_coerce_prediction(p)>>
  /\ UNCHANGED serverVars

\* ---------------------------------------------------------- specifications
InitServer ==
  /\ _model = None
  /\ _device = "cpu"
  /\ startup = "pending"
  /\ reqs = [r \in 1..MaxReqs |-> NewReq]
  /\ files = {}
  /\ healthResp = <<>>
  /\ loadLog = <<>>

Init ==
  /\ InitServer
  /\ MODEL_PATH \in ModelPaths
  /\ cudaAvailable \in BOOLEAN
  /\ prediction = NoPrediction
  /\ coerced = <<>>

Next ==
  \/ \E o \in LoadOutcomes : startup_event(o)
  \/ SkipStartup
  \/ \E o \in LoadOutcomes : LoadModelCall(o)
  \/ health_check
  \/ \E r \in 1..MaxReqs, ct \in ContentTypes, o \in LoadOutcomes :
       transcribe(r, ct, o)
  \/ \E r \in 1..MaxReqs, n \in Payloads, w \in BOOLEAN, inf \in InferOutcomes, g \in BOOLEAN :
       transcribe_resume(r, n, w, inf, g)

Spec == Init /\ [][Next]_vars

\* the coercion on its own: every input of Predictions, one call each
InitCoerce ==
  /\ InitServer
  /\ MODEL_PATH = "/model.nemo"
  /\ cudaAvailable = FALSE
  /\ prediction = NoPrediction
  /\ coerced = <<>>

NextCoerce == \E p \in Predictions : coerce_call(p)

SpecCoerce == InitCoerce /\ [][NextCoerce]_vars

TypeOK ==
  /\ _model \in 0..MaxCalls
  /\ _device \in {"cpu", "cuda"}
  /\ startup \in {"pending", "done", "failed", "skipped"}
  /\ files \subseteq 1..MaxLeaks
  /\ healthResp # <<>> => \A r \in 1..MaxReqs : reqs[r].pc # "done"
  /\ Cardinality({r \in 1..MaxReqs : reqs[r].pc = "done"}) <= 1
  /\ Len(loadLog) <= MaxCalls
\* ================================================================== claims
Reqs == 1..MaxReqs
Done(r) == reqs[r].pc = "done"
\* the upload of request r declares a content type that is not audio
DeclaredNonAudio(r) == reqs[r].pc # "new" /\ reqs[r].ctype = <<TextPlain>>
\* request r passed the input validation of _transcribe
PassedValidation(r) ==
  /\ Done(r)
  /\ ~reqs[r].loadRaised
  /\ reqs[r].ctype \in {<<>>, <<AudioWav>>}
  /\ reqs[r].payload > 0
\* the exit paths behind a staged temp file
ListedExits == {"ok", "no_predictions", "coerce_exc", "infer_exc"}

\* C1: a transcribe call that passes input validation creates exactly one
\* temp file, and on each of its exit paths behind the staged file (success,
\* empty prediction sequence, coercion failure, inference exception) the
\* file is gone when the call returns; a file already gone at cleanup is
\* tolerated: the cleanup never raises and the call ends as the inference
\* and the coercion decide.
C1_TempFileRemoved ==
  \A r \in Reqs :
    /\ PassedValidation(r) =>
         /\ reqs[r].tmpCreated = 1
         /\ reqs[r].exit \in ListedExits \cup {"write_error"}
         /\ reqs[r].exit \in ListedExits =>
              /\ reqs[r].tmpPath \notin files
              /\ reqs[r].inferCalls = 1
         /\ reqs[r].exit = "ok" <=> reqs[r].status = 200
    /\ reqs[r].exit # "cleanup_exc"

C1_Witness ==
  \E r \in Reqs, q \in Reqs :
    /\ PassedValidation(r) /\ reqs[r].exit = "infer_exc" /\ reqs[r].gone
    /\ reqs[r].status = 500 /\ reqs[r].tmpCreated = 1
    /\ reqs[r].tmpPath \notin files /\ files # {}
    /\ reqs[q].pc = "reading"

\* C2: once _model holds a handle no step assigns it again, to another
\* handle or to None, and restore_from returns a model at most once in the
\* life of the process.
C2_HandleCreatedOnce ==
  /\ [][_model # None => _model' = _model]_vars
  /\ [](Cardinality({i \in 1..Len(loadLog) : loadLog[i].restored}) <= 1)

C2_Witness ==
  /\ _model # None
  /\ Len(loadLog) = MaxCalls
  /\ loadLog[Len(loadLog)].pre # None
  /\ \E r \in Reqs : Done(r) /\ reqs[r].exit = "ok"

\* C3 as stated: every request that declares a non-audio content type ends
\* with 400 "Invalid content type", no temp file and no inference, whatever
\* the state of the loader.
C3_NonAudioAlways400 ==
  \A r \in Reqs :
    DeclaredNonAudio(r) =>
      /\ Done(r)
      /\ reqs[r].status = 400
      /\ reqs[r].detail = ErrContentType
      /\ reqs[r].tmpCreated = 0
      /\ reqs[r].inferCalls = 0

\* C3 amended: a request that declares a non-audio content type creates no
\* temp file and invokes no inference; it ends with 400 "Invalid content
\* type" unless _model was None on arrival and the load the request makes
\* raises, and then it ends with that load error as a 500.
C3_NonAudioRejected ==
  \A r \in Reqs :
    DeclaredNonAudio(r) =>
      /\ Done(r)
      /\ reqs[r].tmpCreated = 0
      /\ reqs[r].inferCalls = 0
      /\ reqs[r].tmpPath \notin files
      /\ IF reqs[r].loadRaised
         THEN reqs[r].status = 500 /\ reqs[r].detail \in LoadErrors
         ELSE reqs[r].status = 400 /\ reqs[r].detail = ErrContentType

C3_Witness ==
  /\ \E i \in 1..Len(loadLog) : loadLog[i].raised # ""
  /\ \E r \in Reqs :
       DeclaredNonAudio(r) /\ Done(r) /\ ~reqs[r].loadRaised /\ reqs[r].status = 400

\* C4: with MODEL_PATH unset or naming a file that does not exist, the
\* startup load never succeeds, /healthz answers "loading" in every state,
\* and every POST /transcribe ends with the load error as a 500 without a
\* temp file or an inference call.
BadConfig == MODEL_PATH \notin ExistingPaths

C4_BadPath ==
  BadConfig =>
    /\ startup # "done"
    /\ Status = "loading"
    /\ healthResp # <<>> => healthResp[1].status = "loading"
    /\ files = {}
    /\ \A r \in Reqs :
         /\ reqs[r].pc # "reading"
         /\ Done(r) =>
              /\ reqs[r].status = 500
              /\ reqs[r].detail \in {ErrNotSet, ErrNotExist}
              /\ reqs[r].tmpCreated = 0
              /\ reqs[r].inferCalls = 0

C4_Witness ==
  /\ MODEL_PATH = "/missing.nemo"
  /\ startup = "failed"
  /\ Status = "loading"
  /\ \E r \in Reqs :
       /\ Done(r) /\ reqs[r].ctype = <<AudioWav>>
       /\ reqs[r].status = 500 /\ reqs[r].detail = ErrNotExist

\* C5 as stated: /healthz answers "ready" exactly when a load has completed
\* successfully, and "loading" as long as no call of the loader has
\* returned normally, failed load attempts included.
C5_ReadyIffLoaded ==
  healthResp # <<>> => (healthResp[1].status = "ready" <=> healthResp[1].loaded)

\* C6: a call of the loader made when a handle exists reads no
\* configuration, invokes no restore, and leaves handle and device alone;
\* of two calls in sequence of which the first creates the handle, exactly
\* the first invokes the underlying load.
C6_Idempotent ==
  \A i \in 1..Len(loadLog) :
    /\ loadLog[i].pre # None =>
         /\ ~loadLog[i].env
         /\ ~loadLog[i].restore
         /\ loadLog[i].raised = ""
         /\ loadLog[i].post = loadLog[i].pre
         /\ loadLog[i].devPost = loadLog[i].devPre
    /\ (i < Len(loadLog) /\ loadLog[i].pre = None /\ loadLog[i].raised = "") =>
         /\ loadLog[i].restore
         /\ ~loadLog[i + 1].restore
         /\ loadLog[i + 1].post = loadLog[i].post

C6_Witness ==
  /\ Len(loadLog) >= 2
  /\ loadLog[1].pre = None /\ loadLog[1].raised = "" /\ loadLog[1].restore
  /\ loadLog[2].pre # None /\ ~loadLog[2].restore

\* C7 as stated: in a list, an element that is a dict with none of the
\* candidate keys is skipped: the result is that of the elements after it.
UnmatchedDict(v) ==
  /\ v.tag = "dict"
  /\ v.items # <<>>
  /\ \A i \in 1..Len(v.items) :
       \A j \in 1..Len(CandidateKeys) : v.items[i].s # CandidateKeys[j]

Example7 ==
  List(<<Dict(<<Pair(kFoo, Str(<<"x">>))>>),
         Dict(<<Pair(kText, Str(<<" ", "h", "i", " ">>))>>)>>)

C7_SkipsUnmatchedDict ==
  /\ (coerced # <<>> /\ prediction = Example7) =>
       coerced[1] = Returned(<<"h", "i">>)
  /\ (coerced # <<>> /\ prediction.tag = "list" /\ prediction.items # <<>>
        /\ UnmatchedDict(prediction.items[1])) =>
       coerced[1] = _coerce_prediction(List(Tail(prediction.items)))

\* C7 amended: in a list, an element that is a dict with none of the
\* candidate keys is not skipped: it coerces to its trimmed default string
\* representation, which is not empty, and that is the result when the
\* dict comes first: coerce([{"foo": "x"}, {"text": " hi "}]) is
\* "{'foo': 'x'}".
C7_UnmatchedDictWins ==
  /\ (coerced # <<>> /\ prediction = Example7) =>
       coerced[1] = Returned(<<"{", "'", "f", "o", "o", "'", ":", " ", "'", "x", "'", "}">>)
  /\ (coerced # <<>> /\ prediction.tag = "list" /\ prediction.items # <<>>
        /\ UnmatchedDict(prediction.items[1])) =>
       /\ ~coerced[1].exc
       /\ coerced[1].text # <<>>
       /\ coerced[1].text[1] = "{"
       /\ coerced[1] = _coerce_prediction(prediction.items[1])

C7_Witness == coerced # <<>> /\ prediction = Example7

\* C8 as stated: a dict in which no candidate key holds a string with
\* non-whitespace content coerces to the empty string.
NoCandidateText(v) ==
  /\ v.tag = "dict"
  /\ \A i \in 1..Len(v.items) :
       \/ \A j \in 1..Len(CandidateKeys) : v.items[i].s # CandidateKeys[j]
       \/ v.items[i].items[1].tag # "str"
       \/ \A k \in 1..Len(v.items[i].items[1].s) : v.items[i].items[1].s[k] \in Whitespace

Example8 == Dict(<<Pair(kResult, Str(<<>>))>>)

C8_BlankDictIsEmpty ==
  (coerced # <<>> /\ NoCandidateText(prediction)) => coerced[1] = Returned(<<>>)

\* C8 amended: a dict in which no candidate key holds a string with
\* non-whitespace content coerces to its default string representation,
\* which starts with "{" and is never empty: coerce({"result": ""}) is
\* "{'result': ''}".
C8_BlankDictIsRepr ==
  /\ (coerced # <<>> /\ prediction = Example8) =>
       coerced[1] = Returned(<<"{", "'", "r", "e", "s", "u", "l", "t", "'", ":", " ", "'", "'", "}">>)
  /\ (coerced # <<>> /\ NoCandidateText(prediction)) =>
       /\ ~coerced[1].exc
       /\ Len(coerced[1].text) >= 2
       /\ coerced[1].text[1] = "{"
       /\ coerced[1].text[Len(coerced[1].text)] = "}"

C8_Witness == coerced # <<>> /\ prediction = Example8

\* C9 as stated: a call of the loader that raises leaves _model and _device
\* as they were before the call.
C9_FailedLoadLeavesState ==
  \A i \in 1..Len(loadLog) :
    loadLog[i].raised # "" =>
      /\ loadLog[i].post = loadLog[i].pre
      /\ loadLog[i].devPost = loadLog[i].devPre

\* C10: under every interleaving of the requests, a request that reaches
\* the inference step finds a handle in _model (the assert never fails),
\* and a request whose load attempt raised ends there, without a temp file
\* and without reaching inference.
C10_ModelPresentAtInference ==
  \A r \in Reqs :
    /\ reqs[r].exit # "assert"
    /\ reqs[r].inferCalls > 0 => reqs[r].inferModel # None
    /\ reqs[r].pc = "reading" => _model # None
    /\ reqs[r].loadRaised =>
         /\ Done(r)
         /\ reqs[r].status = 500
         /\ reqs[r].inferCalls = 0
         /\ reqs[r].tmpCreated = 0

C10_Witness ==
  /\ startup = "failed"
  /\ \E r \in Reqs, q \in Reqs :
       /\ reqs[r].pc = "reading"
       /\ Done(q) /\ reqs[q].inferCalls = 1 /\ reqs[q].inferModel # None
====
